---- MODULE Spec2Model ----
(***************************************************************************)
(* lambda-http-local: run(handler, listen_addr) serves an HTTP handler     *)
(* either through the AWS Lambda runtime or through a local hyper server.  *)
(* The model follows src/src/lib.rs statement by statement.  The delegate  *)
(* libraries (hyper 0.12 / tokio, lambda_http) appear only at the calls    *)
(* lib.rs makes into them: Server::bind, concat2, rt::run, the lambda!     *)
(* callback.                                                               *)
(***************************************************************************)
EXTENDS Integers, Sequences, FiniteSets, TLC

VARIABLES
    feature_local,  \* cfg(feature = "local"): the build has the HTTP server component
    env,            \* Option: the value of AWS_LAMBDA_RUNTIME_API in the process environment
    handler,        \* the handler argument of run
    listen_addr,    \* the listen_addr argument of run: what to_socket_addrs() yields
    pc,             \* where run is
    call_env,       \* Option: env as it was when run evaluated is_lambda()
    started,        \* the adapters run has started, a subset of {"lambda", "local"}
    resolve_calls,  \* number of listen_addr.to_socket_addrs() calls made
    addr,           \* Option: the SocketAddr the local listen_addr binding holds
    bound,          \* Option: the address the listening socket is bound to
    stderr,         \* the lines written to the diagnostic stream, in order
    accepting,      \* the hyper Server future is alive (accepts connections)
    conns,          \* connection tasks: conns[c] is "open" or "closed"
    reqs,           \* one record per service_fn call, in order of arrival
    events,         \* one record per callback of the lambda! runtime loop
    probe           \* Option: the last is_lambda() call made by user code

vars == <<feature_local, env, handler, listen_addr, pc, call_env, started,
          resolve_calls, addr, bound, stderr, accepting, conns, reqs, events, probe>>

----------------------------------------------------------------------------
(* Bounds *)

MaxAddrs == 2
MaxConns == 2
MaxReqs == 2
MaxChunks == 2
MaxEvents == 2

----------------------------------------------------------------------------
(* Option<T> as a sequence of length at most one *)

None == <<>>

Some(v) == <<v>>

is_some(o) == Len(o) = 1

----------------------------------------------------------------------------
(* Inputs *)

\* Values AWS_LAMBDA_RUNTIME_API can hold when it is set.
EnvValues == {"", "127.0.0.1:9001"}

EnvStates == {None} \cup {Some(v) : v \in EnvValues}

Addrs == {"127.0.0.1:3000", "[::1]:3000"}

\* Sequences of distinct addresses of length 0..MaxAddrs.
AddrSeqs ==
    {s \in UNION {[1..n -> Addrs] : n \in 0..MaxAddrs} :
        \A i, j \in DOMAIN s : i # j => s[i] # s[j]}

\* to_socket_addrs() is io::Result<impl Iterator<Item = SocketAddr>>.
ListenAddrs ==
    {[ok |-> FALSE, addrs |-> <<>>]} \cup {[ok |-> TRUE, addrs |-> s] : s \in AddrSeqs}

\* examples/hello.rs, and a handler whose response depends on its request.
Handlers == {"hello", "echo"}

\* b"Hello, world!"
HelloBytes == <<72, 101, 108, 108, 111, 44, 32, 119, 111, 114, 108, 100, 33>>

\* Request heads (http::request::Parts) a client or the runtime can deliver.
Heads ==
    {[method |-> "GET", uri |-> "/", headers |-> {}],
     [method |-> "POST", uri |-> "/items", headers |-> {<<"content-type", "text/plain">>}]}

\* Body chunks the hyper::Body stream can yield.
ChunkValues == {<<1>>, <<2, 3>>}

\* lambda_http::Body: Empty, Text(String), Binary(Vec<u8>).
LambdaBodies ==
    {[kind |-> "Empty", data |-> <<>>],
     [kind |-> "Text", data |-> <<1>>],
     [kind |-> "Binary", data |-> <<2, 1>>]}

\* Extensions the runtime's request already carries.
InboundExtensions == {{}, {<<"PathParameters", "p">>}}

Contexts == {"ctx-1", "ctx-2"}

----------------------------------------------------------------------------
(* Pure functions of lib.rs *)

\* std::env::var_os("AWS_LAMBDA_RUNTIME_API") on environment e.
var_os(e) == e

\* A detector that takes an empty value for an unset variable.
is_lambda_nonempty(local, e) ==
    IF local THEN is_some(var_os(e)) /\ var_os(e) # Some("") ELSE TRUE

is_lambda(local, e) ==
    IF local THEN is_some(var_os(e)) ELSE TRUE

\* A resolution that falls back to a default address instead of panicking.
resolve_or_default(la) ==
    IF la.ok /\ Len(la.addrs) > 0
    THEN [panic |-> None, addr |-> Some(la.addrs[1])]
    ELSE [panic |-> None, addr |-> Some("127.0.0.1:3000")]

\* listen_addr.to_socket_addrs().expect(..).next().expect(..)
resolve(la) ==
    IF ~la.ok
    THEN [panic |-> Some("listen_addr.to_socket_addrs() failed"), addr |-> None]
    ELSE IF Len(la.addrs) = 0
    THEN [panic |-> Some("listen_addr.to_socket_addrs() resolved to no addresses"),
          addr |-> None]
    ELSE [panic |-> None, addr |-> Some(la.addrs[1])]

\* The handler F: Fn(Request<&[u8]>) -> Response<Vec<u8>>.
Handler(h, req) ==
    IF h = "hello"
    THEN [status |-> 200, headers |-> {}, body |-> HelloBytes]
    ELSE [status |-> IF req.method = "GET" THEN 200 ELSE 201,
          headers |-> req.headers,
          body |-> req.body]

\* Request::from_parts(parts, body)
from_parts(parts, body) ==
    [method |-> parts.method, uri |-> parts.uri, headers |-> parts.headers,
     extensions |-> parts.extensions, body |-> body]

\* request.into_parts() on a request with head h: the Parts.
into_parts(h, ext) ==
    [method |-> h.method, uri |-> h.uri, headers |-> h.headers, extensions |-> ext]

\* Extensions::insert: a type map, one value per type.
ext_insert(ext, k, v) == {p \in ext : p[1] # k} \cup {<<k, v>>}

\* hyper::Body::from(Vec<u8>)
hyper_body_from(bytes) == [kind |-> "hyper::Body", bytes |-> bytes]

\* lambda_http::Body::from(Vec<u8>)
lambda_body_from(bytes) == [kind |-> "Binary", data |-> bytes]

\* <lambda_http::Body as AsRef<[u8]>>::as_ref
lambda_body_as_ref(b) == IF b.kind = "Empty" THEN <<>> ELSE b.data

\* Concatenation of a sequence of chunks, in order.
RECURSIVE Flatten(_)
Flatten(cs) == IF cs = <<>> THEN <<>> ELSE Head(cs) \o Flatten(Tail(cs))

----------------------------------------------------------------------------
(* The adapters' closures *)

\* A concat2 step that puts the new chunk in front of the accumulator.
concat2_prepend(buf, chunk) == chunk \o buf

\* body.concat2(): one item of the stream is appended to the accumulator.
concat2_step(buf, chunk) == buf \o chunk

\* A service closure that calls the handler a second time.
service_invoke_twice(parts, chunk) ==
    <<from_parts(parts, chunk), from_parts(parts, chunk)>>

\* The closure given to concat2().map: the handler calls it makes, in order.
service_invoke(parts, chunk) == <<from_parts(parts, chunk)>>

\* A response built from the latest request handed to the handler (a buffer
\* shared by all service futures), not from request r.
service_respond_shared(h, rs, r) ==
    LET called == {i \in DOMAIN rs : rs[i].calls # <<>>}
        last == CHOOSE i \in called : \A k \in called : k <= i
        resp == Handler(h, rs[last].calls[1])
    IN  [status |-> resp.status, headers |-> resp.headers,
         body |-> hyper_body_from(resp.body)]

\* handler(..).map(hyper::Body::from) for request r of rs.
service_respond(h, rs, r) ==
    LET resp == Handler(h, rs[r].calls[1])
    IN  [status |-> resp.status, headers |-> resp.headers,
         body |-> hyper_body_from(resp.body)]

\* A callback that leaves the context out of the request's extensions.
lambda_callback_no_context(h, request, context) ==
    LET parts == into_parts(request.head, request.extensions)
        req == from_parts(parts, lambda_body_as_ref(request.body))
        resp == Handler(h, req)
    IN  [calls |-> <<req>>,
         result |-> [ok |-> TRUE,
                     value |-> [status |-> resp.status, headers |-> resp.headers,
                                body |-> lambda_body_from(resp.body)]]]

\* A callback that reports an empty response body as a failed conversion.
lambda_callback_err_on_empty(h, request, context) ==
    LET parts0 == into_parts(request.head, request.extensions)
        parts == [parts0 EXCEPT !.extensions = ext_insert(parts0.extensions, "Context", context)]
        req == from_parts(parts, lambda_body_as_ref(request.body))
        resp == Handler(h, req)
    IN  [calls |-> <<req>>,
         result |-> IF resp.body = <<>>
                    THEN [ok |-> FALSE, value |-> "body conversion failed"]
                    ELSE [ok |-> TRUE,
                          value |-> [status |-> resp.status, headers |-> resp.headers,
                                     body |-> lambda_body_from(resp.body)]]]

\* The closure given to lambda_http::lambda!: the handler calls it makes and
\* the Result it returns to the runtime client.
lambda_callback(h, request, context) ==
    LET parts0 == into_parts(request.head, request.extensions)
        parts == [parts0 EXCEPT !.extensions = ext_insert(parts0.extensions, "Context", context)]
        req == from_parts(parts, lambda_body_as_ref(request.body))
        resp == Handler(h, req)
    IN  [calls |-> <<req>>,
         result |-> [ok |-> TRUE,
                     value |-> [status |-> resp.status, headers |-> resp.headers,
                                body |-> lambda_body_from(resp.body)]]]

----------------------------------------------------------------------------
(* State after construction: run has not been called yet *)

Init ==
    /\ feature_local \in BOOLEAN
    /\ env \in EnvStates
    /\ handler \in Handlers
    /\ listen_addr \in ListenAddrs
    /\ pc = "init"
    /\ call_env = None
    /\ started = {}
    /\ resolve_calls = 0
    /\ addr = None
    /\ bound = None
    /\ stderr = <<>>
    /\ accepting = FALSE
    /\ conns = <<>>
    /\ reqs = <<>>
    /\ events = <<>>
    /\ probe = None

server_vars == <<accepting, conns, reqs>>

run_vars == <<pc, call_env, started, resolve_calls, addr, bound, stderr>>

input_vars == <<feature_local, handler, listen_addr>>

----------------------------------------------------------------------------
(* The process environment and the public detector *)

\* Another part of the program sets or removes the variable
\* (std::env::set_var / remove_var).
SetEnv ==
    /\ \E e \in EnvStates : e # env /\ env' = e
    /\ UNCHANGED <<input_vars, run_vars, server_vars, events, probe>>

\* User code calls the public is_lambda().
IsLambdaProbe ==
    /\ probe' = Some([env |-> env, result |-> is_lambda(feature_local, env)])
    /\ UNCHANGED <<env, input_vars, run_vars, server_vars, events>>

----------------------------------------------------------------------------
(* run *)

\* A dispatch that resolves listen_addr before it looks at the environment.
RunDispatchEager ==
    /\ pc = "init"
    /\ call_env' = Some(env)
    /\ resolve_calls' = resolve_calls + 1
    /\ LET r == resolve(listen_addr)
       IN  IF is_some(r.panic)
           THEN /\ pc' = "panicked"
                /\ stderr' = Append(stderr, <<"panic", r.panic[1]>>)
                /\ UNCHANGED <<started, addr>>
           ELSE /\ addr' = r.addr
                /\ stderr' = stderr
                /\ IF is_lambda(feature_local, env)
                   THEN pc' = "lambda" /\ started' = started \cup {"lambda"}
                   ELSE pc' = "bind" /\ started' = started \cup {"local"}
    /\ UNCHANGED <<env, input_vars, bound, server_vars, events, probe>>

\* A dispatch that starts the Lambda adapter whatever the environment says.
RunDispatchAlwaysLambda ==
    /\ pc = "init"
    /\ call_env' = Some(env)
    /\ pc' = "lambda"
    /\ started' = started \cup {"lambda"}
    /\ UNCHANGED <<env, input_vars, resolve_calls, addr, bound, stderr,
                   server_vars, events, probe>>

\* run is called: cfg(feature = "local") and is_lambda() choose the branch.
RunDispatch ==
    /\ pc = "init"
    /\ call_env' = Some(env)
    /\ IF is_lambda(feature_local, env)
       THEN /\ pc' = "lambda"
            /\ started' = started \cup {"lambda"}
       ELSE /\ pc' = "resolve"
            /\ started' = started \cup {"local"}
    /\ UNCHANGED <<env, input_vars, resolve_calls, addr, bound, stderr,
                   server_vars, events, probe>>

\* let listen_addr = listen_addr.to_socket_addrs().expect(..).next().expect(..);
Resolve ==
    /\ pc = "resolve"
    /\ resolve_calls' = resolve_calls + 1
    /\ LET r == resolve(listen_addr)
       IN  IF is_some(r.panic)
           THEN /\ pc' = "panicked"
                /\ stderr' = Append(stderr, <<"panic", r.panic[1]>>)
                /\ addr' = addr
           ELSE /\ pc' = "bind"
                /\ addr' = r.addr
                /\ stderr' = stderr
    /\ UNCHANGED <<env, input_vars, call_env, started, bound, server_vars, events, probe>>

\* A bind whose failure is left for the server future to meet.
BindLazy ==
    /\ pc = "bind"
    /\ \E ok \in BOOLEAN :
          /\ bound' = IF ok THEN addr ELSE None
          /\ pc' = "announce"
          /\ stderr' = stderr
    /\ UNCHANGED <<env, input_vars, call_env, started, resolve_calls, addr,
                   server_vars, events, probe>>

\* let server = hyper::Server::bind(&listen_addr).serve(make_service);
\* Server::bind binds and listens at once and panics when that fails.
Bind ==
    /\ pc = "bind"
    /\ \E ok \in BOOLEAN :
          IF ok
          THEN /\ bound' = addr
               /\ pc' = "announce"
               /\ stderr' = stderr
          ELSE /\ bound' = bound
               /\ pc' = "panicked"
               /\ stderr' = Append(stderr, <<"panic", "error binding to", addr[1]>>)
    /\ UNCHANGED <<env, input_vars, call_env, started, resolve_calls, addr,
                   server_vars, events, probe>>

\* eprintln!("Listening on http://{}", listen_addr); then hyper::rt::run(..) starts
\* polling the server future.
Announce ==
    /\ pc = "announce"
    /\ stderr' = Append(stderr, <<"Listening on http://", addr[1]>>)
    /\ pc' = "serving"
    /\ accepting' = TRUE
    /\ UNCHANGED <<env, input_vars, call_env, started, resolve_calls, addr, bound,
                   conns, reqs, events, probe>>

----------------------------------------------------------------------------
(* Local server adapter: hyper::rt::run(server.map_err(..)) with make_service *)

InFlight(c) == \E r \in DOMAIN reqs : reqs[r].conn = c /\ reqs[r].st \in {"body", "handler"}

\* The server future accepts a connection and spawns its task (make_service).
Accept ==
    /\ pc = "serving"
    /\ accepting
    /\ Len(conns) < MaxConns
    /\ conns' = Append(conns, "open")
    /\ UNCHANGED <<env, input_vars, run_vars, accepting, reqs, events, probe>>

\* A request head arrives on connection c: the service_fn closure runs
\* request.into_parts() and starts body.concat2().
ServiceCall(c, h) ==
    /\ pc = "serving"
    /\ c \in DOMAIN conns
    /\ conns[c] = "open"
    /\ ~InFlight(c)
    /\ Len(reqs) < MaxReqs
    /\ reqs' = Append(reqs, [conn |-> c, parts |-> into_parts(h, {}), st |-> "body",
                             sent |-> <<>>, buf |-> <<>>, calls |-> <<>>, resp |-> <<>>])
    /\ UNCHANGED <<env, input_vars, run_vars, accepting, conns, events, probe>>

\* The body stream of request r yields a chunk: concat2 extends its accumulator.
BodyChunk(r, ch) ==
    /\ pc = "serving"
    /\ r \in DOMAIN reqs
    /\ reqs[r].st = "body"
    /\ Len(reqs[r].sent) < MaxChunks
    /\ reqs' = [reqs EXCEPT ![r].sent = Append(@, ch),
                            ![r].buf = concat2_step(@, ch)]
    /\ UNCHANGED <<env, input_vars, run_vars, accepting, conns, events, probe>>

\* The body stream of request r ends: concat2 resolves and the map closure calls
\* handler(Request::from_parts(parts, &chunk)).
BodyEnd(r) ==
    /\ pc = "serving"
    /\ r \in DOMAIN reqs
    /\ reqs[r].st = "body"
    /\ reqs' = [reqs EXCEPT ![r].st = "handler",
                            ![r].calls = @ \o service_invoke(reqs[r].parts, reqs[r].buf)]
    /\ UNCHANGED <<env, input_vars, run_vars, accepting, conns, events, probe>>

\* The handler returns for request r: .map(hyper::Body::from) makes the response
\* the service future resolves to, which hyper writes to the connection.
HandlerReturn(r) ==
    /\ pc = "serving"
    /\ r \in DOMAIN reqs
    /\ reqs[r].st = "handler"
    /\ reqs' = [reqs EXCEPT ![r].st = "done",
                            ![r].resp = Append(@, service_respond(handler, reqs, r))]
    /\ UNCHANGED <<env, input_vars, run_vars, accepting, conns, events, probe>>

\* The body stream of request r fails (the client goes away or sends a malformed
\* body): concat2 resolves to Err, the map closure is skipped, the service future
\* fails and hyper closes the connection.
BodyError(r) ==
    /\ pc = "serving"
    /\ r \in DOMAIN reqs
    /\ reqs[r].st = "body"
    /\ reqs' = [reqs EXCEPT ![r].st = "failed"]
    /\ conns' = [conns EXCEPT ![reqs[r].conn] = "closed"]
    /\ UNCHANGED <<env, input_vars, run_vars, accepting, events, probe>>

\* Connection c is closed between requests: its task finishes.
ConnClose(c) ==
    /\ pc = "serving"
    /\ c \in DOMAIN conns
    /\ conns[c] = "open"
    /\ ~InFlight(c)
    /\ conns' = [conns EXCEPT ![c] = "closed"]
    /\ UNCHANGED <<env, input_vars, run_vars, accepting, reqs, events, probe>>

\* The server future resolves to Err: map_err prints the error and the future
\* given to hyper::rt::run completes. The listener is dropped; the connection
\* tasks already spawned on the runtime stay.
ServerError ==
    /\ pc = "serving"
    /\ accepting
    /\ accepting' = FALSE
    /\ stderr' = Append(stderr, <<"Hyper error: ", "accept">>)
    /\ UNCHANGED <<env, input_vars, pc, call_env, started, resolve_calls, addr, bound,
                   conns, reqs, events, probe>>

\* hyper::rt::run returns once the runtime is idle: the server future has
\* completed and no connection task is left.
RunReturn ==
    /\ pc = "serving"
    /\ ~accepting
    /\ \A c \in DOMAIN conns : conns[c] = "closed"
    /\ pc' = "returned"
    /\ UNCHANGED <<env, input_vars, call_env, started, resolve_calls, addr, bound,
                   stderr, server_vars, events, probe>>

----------------------------------------------------------------------------
(* Lambda adapter: lambda_http::lambda!(|request, context| ..) *)

\* Requests the runtime client can deliver: every body kind, with and without
\* extensions of the runtime's own.
LambdaRequests ==
    {[head |-> CHOOSE h \in Heads : (h.method = "GET") = (b.kind = "Empty"),
      extensions |-> CHOOSE x \in InboundExtensions : (x = {}) = (b.kind = "Text"),
      body |-> b] : b \in LambdaBodies}

\* The runtime client delivers an event: the callback runs to its result.
LambdaEvent(request, context) ==
    /\ pc = "lambda"
    /\ Len(events) < MaxEvents
    /\ LET out == lambda_callback(handler, request, context)
       IN  events' = Append(events, [request |-> request, context |-> context,
                                     calls |-> out.calls, result |-> out.result])
    /\ UNCHANGED <<env, input_vars, run_vars, server_vars, probe>>

----------------------------------------------------------------------------
(* Specifications *)

Next ==
    \/ SetEnv
    \/ RunDispatch
    \/ Resolve
    \/ Bind
    \/ Announce
    \/ Accept
    \/ \E c \in DOMAIN conns, h \in Heads : ServiceCall(c, h)
    \/ \E r \in DOMAIN reqs, ch \in ChunkValues : BodyChunk(r, ch)
    \/ \E r \in DOMAIN reqs : BodyEnd(r)
    \/ \E r \in DOMAIN reqs : HandlerReturn(r)
    \/ \E r \in DOMAIN reqs : BodyError(r)
    \/ \E c \in DOMAIN conns : ConnClose(c)
    \/ ServerError
    \/ RunReturn
    \/ \E q \in LambdaRequests, x \in Contexts : LambdaEvent(q, x)

Spec == Init /\ [][Next]_vars

\* The public detector on its own: user code probes it while the environment
\* changes.
ProbeNext ==
    \/ SetEnv
    \/ IsLambdaProbe

ProbeSpec == Init /\ [][ProbeNext]_vars

\* The local server with clients that send their bodies to the end and no
\* transport or server failure.
LiveNext ==
    \/ RunDispatch
    \/ Resolve
    \/ Bind
    \/ Announce
    \/ Accept
    \/ \E c \in DOMAIN conns, h \in Heads : ServiceCall(c, h)
    \/ \E r \in DOMAIN reqs, ch \in ChunkValues : BodyChunk(r, ch)
    \/ \E r \in DOMAIN reqs : BodyEnd(r)
    \/ \E r \in DOMAIN reqs : HandlerReturn(r)
    \/ \E c \in DOMAIN conns : ConnClose(c)

\* Every body that is being sent ends, and every handler call returns: the
\* runtime polls a task whose stream is ready, and the handler does not block
\* for ever.
LiveSpec ==
    /\ Init
    /\ [][LiveNext]_vars
    /\ \A r \in 1..MaxReqs : WF_vars(BodyEnd(r))
    /\ \A r \in 1..MaxReqs : WF_vars(HandlerReturn(r))

----------------------------------------------------------------------------
(* Properties *)

ListeningLines == {i \in DOMAIN stderr : stderr[i][1] = "Listening on http://"}

PanicLines == {i \in DOMAIN stderr : stderr[i][1] = "panic"}

ServerErrorReported == \E i \in DOMAIN stderr : stderr[i][1] = "Hyper error: "

\* Number of handler calls made by the local server adapter so far.
RECURSIVE CallCount(_)
CallCount(rs) == IF rs = <<>> THEN 0 ELSE Len(Head(rs).calls) + CallCount(Tail(rs))

HandlerNeverInvoked == CallCount(reqs) = 0 /\ events = <<>>

\* listen_addr resolves to no address: to_socket_addrs() fails or yields nothing.
ResolveFails == ~listen_addr.ok \/ listen_addr.addrs = <<>>

\* C1: in a build with the local feature, a call of run starts exactly one
\* adapter, chosen by the environment as it is at the call: the Lambda adapter
\* iff AWS_LAMBDA_RUNTIME_API is present, the local server path iff it is
\* absent, never both; before the call none is started.
C1_ModeSelection ==
    feature_local =>
        /\ pc = "init" => started = {} /\ call_env = None
        /\ pc # "init" =>
              /\ is_some(call_env)
              /\ ("lambda" \in started) <=> (call_env[1] # None)
              /\ ("local" \in started) <=> (call_env[1] = None)
              /\ Cardinality(started) = 1
        /\ "lambda" \in started => reqs = <<>> /\ conns = <<>> /\ bound = None
        /\ "local" \in started => events = <<>>

\* The Lambda adapter was chosen while the variable was set (to the empty
\* string), the variable has been removed since, and events are still served.
C1_Witness ==
    /\ feature_local
    /\ started = {"lambda"}
    /\ call_env = Some(Some(""))
    /\ env = None
    /\ Len(events) > 0

\* C2: is_lambda() is true iff AWS_LAMBDA_RUNTIME_API is set, whatever its
\* value (the empty string included); without the local feature it is true in
\* every environment; and a call changes nothing but the caller's result.
C2_IsLambda ==
    /\ [](probe # None =>
            probe[1].result = (IF feature_local THEN probe[1].env # None ELSE TRUE))
    /\ [][probe' # probe =>
            UNCHANGED <<env, input_vars, run_vars, server_vars, events>>]_vars

\* A probe in a local build that found the variable set to the empty string.
C2_Witness ==
    /\ feature_local
    /\ probe = Some([env |-> Some(""), result |-> TRUE])

\* C3: in local mode, when listen_addr fails to resolve or resolves to no
\* address, run panics at its one resolution attempt: nothing is bound, no
\* "Listening on" line is written, the handler is never invoked, and the
\* Lambda adapter is not started.
C3_ResolvePanic ==
    ("local" \in started /\ ResolveFails) =>
        /\ pc \in {"resolve", "panicked"}
        /\ pc = "resolve" => resolve_calls = 0 /\ stderr = <<>>
        /\ pc = "panicked" =>
              /\ resolve_calls = 1
              /\ Len(stderr) = 1
              /\ stderr[1][1] = "panic"
        /\ bound = None
        /\ addr = None
        /\ ListeningLines = {}
        /\ conns = <<>>
        /\ HandlerNeverInvoked
        /\ "lambda" \notin started

\* run has panicked on a listen_addr that resolved to an empty list.
C3_Witness ==
    /\ pc = "panicked"
    /\ listen_addr.ok
    /\ listen_addr.addrs = <<>>
    /\ env = None

\* C4 as stated: every request the server received and is through with got
\* exactly one handler invocation and exactly one response.
C4_Original ==
    \A r \in DOMAIN reqs :
        reqs[r].st \in {"done", "failed"} =>
            Len(reqs[r].calls) = 1 /\ Len(reqs[r].resp) = 1

\* C4 amended: a request whose body stream ends without error gets exactly one
\* handler invocation and then exactly one response; a request whose body
\* stream fails gets neither; no request is answered without its handler
\* invocation or answered twice.
C4_ExactlyOnce ==
    \A r \in DOMAIN reqs :
        /\ Len(reqs[r].calls) <= 1
        /\ Len(reqs[r].resp) <= 1
        /\ Len(reqs[r].resp) = 1 => Len(reqs[r].calls) = 1
        /\ reqs[r].st = "body" => reqs[r].calls = <<>> /\ reqs[r].resp = <<>>
        /\ reqs[r].st = "handler" => Len(reqs[r].calls) = 1 /\ reqs[r].resp = <<>>
        /\ reqs[r].st = "done" => Len(reqs[r].calls) = 1 /\ Len(reqs[r].resp) = 1
        /\ reqs[r].st = "failed" => reqs[r].calls = <<>> /\ reqs[r].resp = <<>>

\* One request has been answered after one handler call, and another one's
\* body stream has failed.
C4_Witness ==
    \E r1, r2 \in DOMAIN reqs :
        /\ reqs[r1].st = "done"
        /\ Len(reqs[r1].calls) = 1
        /\ Len(reqs[r1].resp) = 1
        /\ reqs[r2].st = "failed"

\* C5: the handler is invoked only once the body stream has ended, and the
\* request it is given holds the concatenation of all chunks in arrival order
\* and the method, URI and headers of the request that arrived.
C5_BodyBuffered ==
    \A r \in DOMAIN reqs :
        /\ reqs[r].st = "body" => reqs[r].calls = <<>>
        /\ \A i \in DOMAIN reqs[r].calls :
              /\ reqs[r].st \in {"handler", "done"}
              /\ reqs[r].calls[i].body = Flatten(reqs[r].sent)
              /\ reqs[r].calls[i].method = reqs[r].parts.method
              /\ reqs[r].calls[i].uri = reqs[r].parts.uri
              /\ reqs[r].calls[i].headers = reqs[r].parts.headers

\* The handler was given a body that arrived in two different chunks, and was
\* also given an empty body.
C5_Witness ==
    \E r1, r2 \in DOMAIN reqs :
        /\ reqs[r1].sent = <<(<<2, 3>>), (<<1>>)>>
        /\ Len(reqs[r1].calls) = 1
        /\ reqs[r1].calls[1].body = <<2, 3, 1>>
        /\ reqs[r2].sent = <<>>
        /\ Len(reqs[r2].calls) = 1
        /\ reqs[r2].calls[1].body = <<>>

\* C6: for every event delivered with request R and context X the handler is
\* invoked exactly once, with a request whose extensions hold X as their one
\* context (and R's other extensions) and whose method, URI, headers and body
\* bytes are R's.
C6_LambdaContext ==
    \A i \in DOMAIN events :
        LET e == events[i] IN
        /\ Len(e.calls) = 1
        /\ {x \in e.calls[1].extensions : x[1] = "Context"} = {<<"Context", e.context>>}
        /\ e.request.extensions \subseteq e.calls[1].extensions
        /\ e.calls[1].method = e.request.head.method
        /\ e.calls[1].uri = e.request.head.uri
        /\ e.calls[1].headers = e.request.head.headers
        /\ e.calls[1].body = e.request.body.data

\* Two events with different contexts, each seen by the handler with its own.
C6_Witness ==
    /\ Len(events) >= 2
    /\ events[1].context # events[2].context
    /\ <<"Context", events[1].context>> \in events[1].calls[1].extensions
    /\ <<"Context", events[2].context>> \in events[2].calls[1].extensions

\* What the handler returns for the request that arrived as request r.
ExpectedResponse(r) ==
    Handler(handler, [method |-> reqs[r].parts.method, uri |-> reqs[r].parts.uri,
                      headers |-> reqs[r].parts.headers, extensions |-> {},
                      body |-> Flatten(reqs[r].sent)])

ResponsesMatch ==
    \A r \in DOMAIN reqs :
        reqs[r].st = "done" =>
            /\ Len(reqs[r].resp) = 1
            /\ reqs[r].resp[1].status = ExpectedResponse(r).status
            /\ reqs[r].resp[1].headers = ExpectedResponse(r).headers
            /\ reqs[r].resp[1].body.bytes = ExpectedResponse(r).body
            /\ handler = "hello" =>
                  reqs[r].resp[1].status = 200 /\ reqs[r].resp[1].body.bytes = HelloBytes

C8_LambdaResult ==
    \A i \in DOMAIN events :
        LET e == events[i]
            resp == Handler(handler, e.calls[1])
        IN  /\ e.result.ok
            /\ e.result.value.status = resp.status
            /\ e.result.value.headers = resp.headers
            /\ e.result.value.body.kind = "Binary"
            /\ e.result.value.body.data = resp.body

\* An invocation whose handler returned an empty body ended in Ok.
C8_Witness ==
    \E i \in DOMAIN events :
        /\ handler = "echo"
        /\ events[i].request.body.kind = "Empty"
        /\ events[i].result.ok
        /\ events[i].result.value.body.data = <<>>

\* C9: in Lambda mode listen_addr is never resolved, no socket is bound and
\* nothing is written to the diagnostic stream; run does not panic, whatever
\* listen_addr would resolve to.
C9_ListenAddrUnused ==
    "lambda" \in started =>
        /\ pc = "lambda"
        /\ resolve_calls = 0
        /\ addr = None
        /\ bound = None
        /\ stderr = <<>>
        /\ conns = <<>>

\* Events reach the handler in Lambda mode with a listen_addr that fails to
\* resolve.
C9_Witness ==
    /\ feature_local
    /\ "lambda" \in started
    /\ ~listen_addr.ok
    /\ Len(events) > 0
    /\ Len(events[1].calls) = 1

\* The startup line: written at most once, naming the first resolved address,
\* after the socket is bound to it and before any connection or request; a
\* failed bind is a panic with no startup line and no handler call.
C10_Startup ==
    /\ Cardinality(ListeningLines) <= 1
    /\ \A i \in ListeningLines :
          /\ listen_addr.ok
          /\ Len(listen_addr.addrs) >= 1
          /\ stderr[i][2] = listen_addr.addrs[1]
          /\ bound = Some(listen_addr.addrs[1])
    /\ (conns # <<>> \/ reqs # <<>> \/ accepting) => Cardinality(ListeningLines) = 1
    /\ (pc \in {"serving", "returned"}) => bound # None
    /\ (pc = "panicked" /\ addr # None) =>
          /\ bound = None
          /\ ListeningLines = {}
          /\ Cardinality(PanicLines) = 1
          /\ stderr[Len(stderr)] = <<"panic", "error binding to", addr[1]>>
          /\ conns = <<>>
          /\ HandlerNeverInvoked

\* C10 as stated: the startup line and bind failure as above, and once a
\* server error has been reported no further request is handed to the handler.
C10_Original ==
    /\ []C10_Startup
    /\ [][ServerErrorReported => CallCount(reqs') = CallCount(reqs)]_vars

\* C10 amended: the startup line and bind failure as above; once a server
\* error has been reported no further connection is accepted, and the server
\* error is reported at most once; requests are still served on the
\* connections accepted before it.
C10_StartupAndServerError ==
    /\ []C10_Startup
    /\ [](ServerErrorReported => ~accepting)
    /\ [][ServerErrorReported => Len(conns') = Len(conns) /\ stderr' = stderr]_vars

\* A server error has been reported and a request that arrived on a connection
\* accepted earlier is inside the handler.
C10_Witness ==
    /\ ServerErrorReported
    /\ Cardinality(ListeningLines) = 1
    /\ \E r \in DOMAIN reqs : reqs[r].st = "handler" /\ conns[reqs[r].conn] = "open"

====
